---- MODULE Spec2Model ----
(***************************************************************************)
(* A model of the news bot: the NewsManager store operations               *)
(* (news_manager.py), the telegram_bot_v2 scheduler job and /getnews       *)
(* handler, and the telegram_bot (first version) feed and delivery jobs    *)
(* over the Database class (database.py).                                  *)
(*                                                                         *)
(* Identities.  Telegram user ids and database row ids are both numbers.   *)
(* NewsManager takes a Telegram id (as a string) and resolves it to a row  *)
(* of the users table by username "user_<id>" or e-mail                    *)
(* "<id>@telegram.user"; str() of a number is modelled by the number.      *)
(* Time is counted in minutes.                                             *)
(***************************************************************************)
EXTENDS Integers, Sequences, FiniteSets, Bags, TLC

\* ---------------------------------------------------------------- bounds
MaxTid == 2
MaxUsers == 2
MaxFeeds == 2
MaxNews == 3
MaxLinks == 2
MaxEntries == 2
MaxTime == 60
TimeStep == 60

Tids == 1..MaxTid
Urls == 1..MaxFeeds
Links == 1..MaxLinks

\* SQL NULL / Python None
NULL == -1

\* ------------------------------------------------------- program constants
DefaultInterval == 60
DefaultMaxItems == 5
BatchCap == 5
IntervalPresets == {30, 60, 180, 1440}

VARIABLES
    app,      \* which program runs: "v2" (telegram_bot_v2.py) or "v1" (telegram_bot.py)
    db,       \* the SQLite database (news_database.db)
    now,      \* the clock, in minutes (UTC)
    tz,       \* the machine's time zone: local time minus UTC, in minutes
    sent,     \* the notification sink: the messages it delivered
    tick,     \* the scheduler job: its position and local variables
    cmd,      \* the command handler in flight: its position and local variables
    last      \* the last operation and what it returned

vars == <<app, db, now, tz, sent, tick, cmd, last>>

\* ------------------------------------------------------------- sequences
Range(s) == {s[i] : i \in DOMAIN s}

Take(s, n) == SubSeq(s, 1, IF Len(s) < n THEN Len(s) ELSE n)

Min(a, b) == IF a < b THEN a ELSE b

\* ----------------------------------------------------------- the database
\* users(user_id, username, email): user_id is the row's position.
\* rss_feeds(feed_id, feed_url, last_updated); news_items(news_id, feed_id,
\* link, pub_date, and body standing for title and description);
\* user_feeds(user_id, feed_id) and news_delivery(delivery_id, user_id, news_id),
\* each a bag of rows;
\* user_schedule and user_preferences keyed by user_id.
EmptyDb ==
    [users |-> <<>>, feeds |-> <<>>, news |-> <<>>, user_feeds |-> EmptyBag,
     delivery |-> EmptyBag, schedule |-> <<>>, prefs |-> <<>>]

\* A username is the Telegram handle passed by the caller (handle 0 stands for the
\* placeholder "User"), or the synthetic "user_<tid>".
Handle(h) == [kind |-> "handle", v |-> h]
UserOf(tid) == [kind |-> "user_", v |-> tid]

\* schema.sql: the column defaults of user_preferences that add_user leaves out.
DefaultPrefs ==
    [max_news_items |-> DefaultMaxItems, enable_voice |-> FALSE]

\* The rows of user_schedule / user_preferences are functions over the user_ids
\* that have a row.
HasRow(table, uid) == uid \in DOMAIN table

PutRow(table, uid, row) ==
    [u \in (DOMAIN table) \cup {uid} |-> IF u = uid THEN row ELSE table[u]]

\* INSERT OR IGNORE INTO <table keyed by user_id>
InsertOrIgnoreRow(table, uid, row) ==
    IF HasRow(table, uid) THEN table ELSE PutRow(table, uid, row)

\* The first row of a table whose column col holds v (0: no such row)
FirstRow(rows, col, v) ==
    IF \E i \in DOMAIN rows : rows[i][col] = v
    THEN CHOOSE i \in DOMAIN rows :
            rows[i][col] = v /\ \A j \in 1..(i - 1) : rows[j][col] # v
    ELSE 0

\* NewsManager.add_user
add_user(d, tid, username) ==
    LET existing == FirstRow(d.users, "username", username)
        uid == IF existing # 0 THEN existing ELSE Len(d.users) + 1
        users1 == IF existing # 0 THEN d.users
                  ELSE Append(d.users, [username |-> username, email |-> tid])
    IN [db |-> [d EXCEPT !.users = users1,
                         !.schedule = InsertOrIgnoreRow(@, uid,
                             [enabled |-> FALSE, interval |-> DefaultInterval, last |-> NULL]),
                         !.prefs = InsertOrIgnoreRow(@, uid, DefaultPrefs)],
        ret |-> uid]

\* NewsManager._get_db_user_id
get_db_user_id(d, tid) ==
    LET byName == FirstRow(d.users, "username", UserOf(tid))
        byMail == FirstRow(d.users, "email", tid)
    IN IF byName # 0 THEN [db |-> d, ret |-> byName]
       ELSE IF byMail # 0 THEN [db |-> d, ret |-> byMail]
       ELSE add_user(d, tid, UserOf(tid))

\* The store has a users row for the subscriber of Telegram id tid
KnownUser(d, tid) ==
    \/ FirstRow(d.users, "username", UserOf(tid)) # 0
    \/ FirstRow(d.users, "email", tid) # 0

\* The users row a Telegram id (or the number the scheduler job passes as one)
\* resolves to
Resolve(d, tid) == get_db_user_id(d, tid).ret

\* ------------------------------------------------------------- the source fetcher
\* What feedparser.parse(url) gives at one call: out = "ok" with the entries listed
\* (possibly none), "bozo" for an unreachable or malformed source (feedparser reports
\* it in the result and lists no entries), or "raise": an exception, at the call
\* itself (k = 0) or while the last entry (k) is being read.  An entry is [link, date]; date NULL
\* is an entry without published_parsed / updated_parsed; ver stands for the titles
\* and descriptions the source serves at this call.
FetchOk(entries, ver) == [out |-> "ok", entries |-> entries, k |-> 0, ver |-> ver]
FetchBozo == [out |-> "bozo", entries |-> <<>>, k |-> 0, ver |-> 0]
FetchRaise(entries, k, ver) == [out |-> "raise", entries |-> entries, k |-> k, ver |-> ver]

SeqsUpTo(S, n) == UNION {[1..m -> S] : m \in 0..n}

FetchResults(E, n, V) ==
    {FetchOk(es, v) : es \in SeqsUpTo(E, n), v \in V} \cup {FetchBozo}
    \cup {FetchRaise(es, Len(es), v) : es \in SeqsUpTo(E, n), v \in V}

\* link = entry.link if hasattr(entry, 'link') else "": an entry without a link
\* (link NULL) is given the empty string
EmptyLink == 0

LinkOf(entry) == IF entry.link = NULL THEN EmptyLink ELSE entry.link

\* An ingestion that does not look for the link before it inserts
NoLinkCheck(news, link) == FALSE

\* A lookup that finds no row for the empty link
HasLinkGiven(news, link) ==
    link # EmptyLink /\ \E i \in DOMAIN news : news[i].link = link

\* SELECT news_id FROM news_items WHERE link = ?
HasLink(news, link) == \E i \in DOMAIN news : news[i].link = link

\* INSERT INTO news_items (feed_id, title, link, description, pub_date): an entry
\* without a date gets datetime.now(), the local time at UTC time t
InsertNewsItem(news, fid, entry, body, t) ==
    Append(news, [feed |-> fid, link |-> LinkOf(entry),
                  pub_date |-> IF entry.date # NULL THEN entry.date ELSE t + tz,
                  body |-> body])

\* The loop of NewsManager._fetch_feed_items over entries[i..n]: [news, added]
RECURSIVE FetchLoop(_, _, _, _, _, _, _, _)
FetchLoop(news, added, entries, i, n, fid, ver, t) ==
    IF i > n THEN [news |-> news, added |-> added]
    ELSE IF HasLink(news, LinkOf(entries[i]))
         THEN FetchLoop(news, added, entries, i + 1, n, fid, ver, t)
         ELSE FetchLoop(InsertNewsItem(news, fid, entries[i], ver, t), added + 1,
                        entries, i + 1, n, fid, ver, t)

\* A rollback that undoes nothing
RollbackNothing(committed, working) == working

\* conn.rollback(): the statements since the last commit are undone
Rollback(committed, working) == committed

\* A _fetch_feed_items that returns the number of entries it read
fetch_feed_items_entries(d, fid, res, t) ==
    IF res.out = "raise" THEN [db |-> d, ret |-> 0]
    ELSE [db |-> [d EXCEPT !.news = FetchLoop(d.news, 0, res.entries, 1,
                                              Len(res.entries), fid, res.ver, t).news,
                           !.feeds[fid].last_updated = t],
          ret |-> Len(res.entries)]

\* NewsManager._fetch_feed_items
fetch_feed_items(d, fid, res, t) ==
    IF res.out = "raise"
    THEN \* the entries before entry k were inserted when the exception is raised
         LET part == FetchLoop(d.news, 0, res.entries, 1, res.k - 1, fid, res.ver, t)
         IN [db |-> Rollback(d, [d EXCEPT !.news = part.news]), ret |-> 0]
    ELSE LET done == FetchLoop(d.news, 0, res.entries, 1, Len(res.entries), fid, res.ver, t)
         IN [db |-> [d EXCEPT !.news = done.news,
                              !.feeds[fid].last_updated = t],
             ret |-> done.added]

\* NewsManager.check_feeds, from feed i on: fetch maps a feed's url to what the
\* fetcher gives for it in this poll.
RECURSIVE CheckFeedsFrom(_, _, _, _, _)
CheckFeedsFrom(d, i, total, fetch, t) ==
    IF i > Len(d.feeds) THEN [db |-> d, ret |-> total]
    ELSE LET r == fetch_feed_items(d, i, fetch[d.feeds[i].url], t)
         IN CheckFeedsFrom(r.db, i + 1, total + r.ret, fetch, t)

check_feeds(d, fetch, t) == CheckFeedsFrom(d, 1, 0, fetch, t)

\* An add_feed that looks the address up before it looks at the entries
add_feed_lookup_first(d, url, res1, res2, t) ==
    LET existing == FirstRow(d.feeds, "url", url)
        fid == Len(d.feeds) + 1
        d1 == [d EXCEPT !.feeds = Append(@, [url |-> url, last_updated |-> NULL])]
    IN IF res1.out = "raise" THEN [db |-> d, ret |-> 0]
       ELSE IF existing # 0 THEN [db |-> d, ret |-> existing]
       ELSE IF res1.entries = <<>> THEN [db |-> d, ret |-> 0]
       ELSE [db |-> fetch_feed_items(d1, fid, res2, t).db, ret |-> fid]

\* NewsManager.add_feed: res1 is the verifying parse, res2 the parse of the
\* initial fetch.
add_feed(d, url, res1, res2, t) ==
    LET existing == FirstRow(d.feeds, "url", url)
        fid == Len(d.feeds) + 1
        d1 == [d EXCEPT !.feeds = Append(@, [url |-> url, last_updated |-> NULL])]
    IN IF res1.out = "raise" \/ res1.entries = <<>> THEN [db |-> d, ret |-> 0]
       ELSE IF existing # 0 THEN [db |-> d, ret |-> existing]
       ELSE [db |-> fetch_feed_items(d1, fid, res2, t).db, ret |-> fid]

\* user_feeds: the rows (user_id, feed_id), as a bag
Subscribed(d, uid, fid) == BagIn(<<uid, fid>>, d.user_feeds)

InsertUserFeed(user_feeds, uid, fid) == user_feeds (+) SetToBag({<<uid, fid>>})

\* DELETE FROM user_feeds WHERE user_id = uid AND feed_id = fid
DeleteUserFeed(user_feeds, uid, fid) ==
    [p \in DOMAIN user_feeds \ {<<uid, fid>>} |-> user_feeds[p]]

\* A subscribe_user_to_feed without the SELECT that looks for the row first
subscribe_user_to_feed_insert(d, tid, fid) ==
    LET r == get_db_user_id(d, tid)
    IN [db |-> [r.db EXCEPT !.user_feeds = InsertUserFeed(@, r.ret, fid)], ret |-> TRUE]

\* NewsManager.subscribe_user_to_feed
subscribe_user_to_feed(d, tid, fid) ==
    LET r == get_db_user_id(d, tid)
    IN IF Subscribed(r.db, r.ret, fid) THEN [db |-> r.db, ret |-> TRUE]
       ELSE [db |-> [r.db EXCEPT !.user_feeds = InsertUserFeed(@, r.ret, fid)],
             ret |-> TRUE]

\* An unsubscribe_user_from_feed that also deletes the feed's news_items
unsubscribe_user_from_feed_purge(d, tid, fid) ==
    LET r == get_db_user_id(d, tid)
    IN [db |-> [r.db EXCEPT !.user_feeds = DeleteUserFeed(@, r.ret, fid),
                            !.news = SelectSeq(@, LAMBDA x : x.feed # fid)],
        ret |-> TRUE]

\* An unsubscribe that also deletes the subscriber's receipts
unsubscribe_user_from_feed_forget(d, tid, fid) ==
    LET r == get_db_user_id(d, tid)
    IN [db |-> [r.db EXCEPT !.user_feeds = DeleteUserFeed(@, r.ret, fid),
                            !.delivery = [p \in {q \in DOMAIN @ : q[1] # r.ret} |-> @[p]]],
        ret |-> TRUE]

\* NewsManager.unsubscribe_user_from_feed
unsubscribe_user_from_feed(d, tid, fid) ==
    LET r == get_db_user_id(d, tid)
    IN [db |-> [r.db EXCEPT !.user_feeds = DeleteUserFeed(@, r.ret, fid)], ret |-> TRUE]

\* NewsManager.get_user_feeds: the feed_ids
get_user_feeds(d, tid) ==
    LET r == get_db_user_id(d, tid)
    IN [db |-> r.db,
        ret |-> {f \in DOMAIN r.db.feeds : Subscribed(r.db, r.ret, f)}]

\* ------------------------------------------------- eligibility and receipts
\* NewsManager.get_user_preferences
get_user_preferences(d, tid) ==
    LET r == get_db_user_id(d, tid)
    IN [db |-> r.db,
        ret |-> IF HasRow(r.db.prefs, r.ret) THEN r.db.prefs[r.ret] ELSE DefaultPrefs]

\* NewsManager.get_user_language: user_preferences.preferred_language, which no
\* operation modelled here changes from its default
get_user_language(d, tid) ==
    LET r == get_db_user_id(d, tid)
    IN [db |-> r.db, ret |-> "en"]

\* news_delivery: the rows (user_id, news_id), as a bag
HasReceipt(d, uid, nid) == BagIn(<<uid, nid>>, d.delivery)

InsertDelivery(delivery, uid, nid) == delivery (+) SetToBag({<<uid, nid>>})

\* The rows the query of get_undelivered_news selects for user uid
Eligible(d, uid) ==
    {n \in DOMAIN d.news : BagIn(<<uid, d.news[n].feed>>, d.user_feeds)
                           /\ ~HasReceipt(d, uid, n)}

\* An ORDER BY pub_date ASC
Older(d, a, b) ==
    \/ d.news[a].pub_date < d.news[b].pub_date
    \/ d.news[a].pub_date = d.news[b].pub_date /\ a < b

\* ORDER BY pub_date DESC; rows of equal pub_date are taken in news_id order.
Newer(d, a, b) ==
    \/ d.news[a].pub_date > d.news[b].pub_date
    \/ d.news[a].pub_date = d.news[b].pub_date /\ a < b

RECURSIVE OrderByPubDateDesc(_, _)
OrderByPubDateDesc(d, S) ==
    IF S = {} THEN <<>>
    ELSE LET top == CHOOSE a \in S : \A b \in S \ {a} : Newer(d, a, b)
         IN <<top>> \o OrderByPubDateDesc(d, S \ {top})

\* NewsManager.get_undelivered_news: the news_ids, in the order returned
get_undelivered_news(d, tid) ==
    LET r == get_db_user_id(d, tid)
        p == get_user_preferences(r.db, tid)
    IN [db |-> p.db,
        ret |-> Take(OrderByPubDateDesc(p.db, Eligible(p.db, r.ret)),
                     p.ret.max_news_items)]

\* schema.sql: news_delivery is UNIQUE(user_id, news_id)
DeliveryUnique == TRUE

\* A plain INSERT into a news_delivery without the UNIQUE constraint
mark_news_delivered_insert(d, tid, nid) ==
    LET r == get_db_user_id(d, tid)
    IN [db |-> [r.db EXCEPT !.delivery = InsertDelivery(@, r.ret, nid)], ret |-> TRUE]

\* A mark_news_delivered with a plain INSERT into the UNIQUE news_delivery: the
\* second insert of a pair raises, and the function reports failure
mark_news_delivered_plain(d, tid, nid) ==
    LET r == get_db_user_id(d, tid)
    IN IF HasReceipt(r.db, r.ret, nid) THEN [db |-> r.db, ret |-> FALSE]
       ELSE [db |-> [r.db EXCEPT !.delivery = InsertDelivery(@, r.ret, nid)],
             ret |-> TRUE]

\* NewsManager.mark_news_delivered (INSERT OR IGNORE INTO news_delivery)
mark_news_delivered(d, tid, nid) ==
    LET r == get_db_user_id(d, tid)
    IN [db |-> IF DeliveryUnique /\ HasReceipt(r.db, r.ret, nid) THEN r.db
               ELSE [r.db EXCEPT !.delivery = InsertDelivery(@, r.ret, nid)],
        ret |-> TRUE]

\* UPDATE <table keyed by user_id> SET col = v WHERE user_id = uid
UpdateRow(table, uid, col, v) ==
    IF HasRow(table, uid) THEN [table EXCEPT ![uid][col] = v] ELSE table

\* NewsManager.update_last_delivery
update_last_delivery(d, tid, t) ==
    LET r == get_db_user_id(d, tid)
    IN [db |-> [r.db EXCEPT !.schedule =
                    UpdateRow(@, r.ret, "last", t)],
        ret |-> TRUE]

\* NewsManager.enable_auto_delivery
enable_auto_delivery(d, tid, t) ==
    LET r == get_db_user_id(d, tid)
    IN [db |-> [r.db EXCEPT !.schedule =
                    IF HasRow(@, r.ret)
                    THEN [@ EXCEPT ![r.ret] = [@ EXCEPT !.enabled = TRUE, !.last = t]]
                    ELSE PutRow(@, r.ret, [enabled |-> TRUE,
                                           interval |-> DefaultInterval, last |-> t])],
        ret |-> TRUE]

\* NewsManager.disable_auto_delivery
disable_auto_delivery(d, tid) ==
    LET r == get_db_user_id(d, tid)
    IN [db |-> [r.db EXCEPT !.schedule =
                    UpdateRow(@, r.ret, "enabled", FALSE)],
        ret |-> TRUE]

\* A set_schedule that replaces the row (INSERT OR REPLACE)
set_schedule_replace(d, tid, minutes) ==
    LET r == get_db_user_id(d, tid)
    IN IF minutes \notin IntervalPresets THEN [db |-> r.db, ret |-> FALSE]
       ELSE [db |-> [r.db EXCEPT !.schedule =
                        PutRow(@, r.ret, [enabled |-> FALSE,
                                          interval |-> minutes, last |-> NULL])],
             ret |-> TRUE]

\* A set_schedule that takes any interval of at least 5 minutes
set_schedule_any(d, tid, minutes) ==
    LET r == get_db_user_id(d, tid)
    IN IF minutes < 5 THEN [db |-> r.db, ret |-> FALSE]
       ELSE [db |-> [r.db EXCEPT !.schedule =
                        IF HasRow(@, r.ret)
                        THEN [@ EXCEPT ![r.ret] = [@ EXCEPT !.interval = minutes]]
                        ELSE PutRow(@, r.ret, [enabled |-> FALSE,
                                               interval |-> minutes, last |-> NULL])],
             ret |-> TRUE]

\* NewsManager.set_schedule
set_schedule(d, tid, minutes) ==
    LET r == get_db_user_id(d, tid)
    IN IF minutes \notin IntervalPresets THEN [db |-> r.db, ret |-> FALSE]
       ELSE [db |-> [r.db EXCEPT !.schedule =
                        IF HasRow(@, r.ret)
                        THEN [@ EXCEPT ![r.ret] = [@ EXCEPT !.interval = minutes]]
                        ELSE PutRow(@, r.ret, [enabled |-> FALSE,
                                               interval |-> minutes, last |-> NULL])],
             ret |-> TRUE]

\* A get_user_schedule that gives no default: for a subscriber without a row it
\* returns an empty schedule
get_user_schedule_empty(d, tid) ==
    LET r == get_db_user_id(d, tid)
    IN IF HasRow(d.schedule, Resolve(d, tid))
       THEN [db |-> r.db, ret |-> r.db.schedule[r.ret]]
       ELSE [db |-> r.db, ret |-> [enabled |-> FALSE, interval |-> 0, last |-> NULL]]

\* NewsManager.get_user_schedule: the schedule returned is [enabled, interval, last]
get_user_schedule(d, tid) ==
    LET r == get_db_user_id(d, tid)
        default == [enabled |-> FALSE, interval |-> DefaultInterval, last |-> NULL]
    IN IF HasRow(r.db.schedule, r.ret)
       THEN [db |-> r.db, ret |-> r.db.schedule[r.ret]]
       ELSE [db |-> [r.db EXCEPT !.schedule = PutRow(@, r.ret, default)],
             ret |-> default]

\* NewsManager.update_user_preferences
update_user_preferences(d, tid, preferences) ==
    LET r == get_db_user_id(d, tid)
    IN [db |-> [r.db EXCEPT !.prefs = PutRow(@, r.ret, preferences)], ret |-> TRUE]

\* NewsManager.set_voice_enabled
set_voice_enabled(d, tid, enabled) ==
    LET p == get_user_preferences(d, tid)
    IN update_user_preferences(p.db, tid, [p.ret EXCEPT !.enable_voice = enabled])

\* What the last operation was given and returned: for a poll, the count it
\* returned, the feeds whose fetch failed and whether a fetched feed listed a
\* link that was stored already; for a send, 1 if it returned and 0 if it raised,
\* and then the (chat, news_id) it was for; for a store operation called for a
\* subscriber, its arguments and result (known: the row asked for was stored).
NoReturn == [op |-> "-", ret |-> 0, failed |-> {}, known |-> FALSE, item |-> <<>>]

Returned(op, ret) == [NoReturn EXCEPT !.op = op, !.ret = ret]

Raised(op, c, n) == [NoReturn EXCEPT !.op = op, !.item = <<c, n>>]

\* ------------------------------------------------------ the notification sink
\* sent is the set of (chat, news_id) the sink delivered
Delivered(c, n) == sent \cup {<<c, n>>}

\* --------------------------------- telegram_bot_v2: the scheduler job
IdleTick == [pc |-> "idle", rows |-> <<>>, cur |-> 0, items |-> <<>>,
             voice |-> FALSE]

\* SELECT us.user_id, us.interval_minutes, us.last_delivery ... WHERE us.enabled = 1
RECURSIVE EnabledRows(_, _)
EnabledRows(d, uid) ==
    IF uid > Len(d.users) THEN <<>>
    ELSE (IF HasRow(d.schedule, uid) /\ d.schedule[uid].enabled
          THEN <<[user_id |-> uid, interval |-> d.schedule[uid].interval,
                  last |-> d.schedule[uid].last]>>
          ELSE <<>>) \o EnabledRows(d, uid + 1)

\* datetime.now(): the local time, where CURRENT_TIMESTAMP (now) is UTC
LocalNow == now + tz

\* if last_delivery: ... if datetime.now() < next_delivery_time: continue
Due(row, t) == row.last = NULL \/ ~(t < row.last + row.interval)

\* check_and_deliver_news from the head of the users still to process up to its
\* next await (the send of a first item) or its end.
RECURSIVE TickScan(_, _, _)
TickScan(d, rows, t) ==
    IF rows = <<>> THEN [db |-> d, tick |-> IdleTick]
    ELSE LET row == Head(rows)
             r == get_undelivered_news(d, row.user_id)
             p == get_user_preferences(r.db, row.user_id)
         IN IF ~Due(row, t) THEN TickScan(d, Tail(rows), t)
            ELSE IF r.ret = <<>> THEN TickScan(r.db, Tail(rows), t)
            ELSE [db |-> p.db,
                  tick |-> [pc |-> "send", rows |-> Tail(rows), cur |-> row.user_id,
                            items |-> Take(r.ret, BatchCap),
                            voice |-> p.ret.enable_voice]]

\* voice_file = news_manager.get_voice_file(...) is a coroutine that is never
\* awaited: os.path.exists(voice_file) raises TypeError.
VoiceStepRaises(enable_voice) == enable_voice

\* The job starts (run_repeating): the query and the code up to the first send.
TickStart ==
    /\ app = "v2" /\ tick.pc = "idle"
    /\ LET r == TickScan(db, EnabledRows(db, 1), LocalNow)
       IN /\ Len(r.db.users) <= MaxUsers
          /\ db' = r.db
          /\ tick' = r.tick
    /\ last' = NoReturn
    /\ UNCHANGED <<app, tz, now, sent, cmd>>

\* await context.bot.send_message(...) returns: the voice step, the receipt, and
\* the code up to the next send or the end of the job.
TickSendOk ==
    /\ app = "v2" /\ tick.pc = "send"
    /\ sent' = Delivered(tick.cur, Head(tick.items))
    /\ LET n == Head(tick.items)
           d1 == mark_news_delivered(db, tick.cur, n).db
           d2 == update_last_delivery(d1, tick.cur, now).db
           r == TickScan(d2, tick.rows, LocalNow)
       IN IF VoiceStepRaises(tick.voice)
          THEN /\ db' = db
               /\ tick' = IdleTick
          ELSE IF Tail(tick.items) # <<>>
          THEN /\ db' = d1
               /\ tick' = [tick EXCEPT !.items = Tail(@)]
          ELSE /\ Len(r.db.users) <= MaxUsers
               /\ db' = r.db
               /\ tick' = r.tick
    /\ last' = Returned("tick_send", 1)
    /\ UNCHANGED <<app, tz, now, cmd>>

\* A job that catches the exception of a send per item and goes on with the
\* rest of the batch
TickSendFailContinue ==
    /\ app = "v2" /\ tick.pc = "send"
    /\ LET d2 == update_last_delivery(db, tick.cur, now).db
           r == TickScan(d2, tick.rows, LocalNow)
       IN IF Tail(tick.items) # <<>>
          THEN /\ db' = db
               /\ tick' = [tick EXCEPT !.items = Tail(@)]
          ELSE /\ Len(r.db.users) <= MaxUsers
               /\ db' = r.db
               /\ tick' = r.tick
    /\ last' = Raised("tick_send", tick.cur, Head(tick.items))
    /\ UNCHANGED <<app, tz, now, sent, cmd>>

\* A job whose exception is not caught and ends the recurring scheduler
TickSendFailStops ==
    /\ app = "v2" /\ tick.pc = "send"
    /\ tick' = [IdleTick EXCEPT !.pc = "stopped"]
    /\ last' = Raised("tick_send", tick.cur, Head(tick.items))
    /\ UNCHANGED <<app, tz, db, now, sent, cmd>>

\* A job that writes the receipt although the send raised
TickSendFailReceipted ==
    /\ app = "v2" /\ tick.pc = "send"
    /\ db' = mark_news_delivered(db, tick.cur, Head(tick.items)).db
    /\ tick' = IdleTick
    /\ last' = Raised("tick_send", tick.cur, Head(tick.items))
    /\ UNCHANGED <<app, tz, now, sent, cmd>>

\* await context.bot.send_message(...) raises: the exception leaves both loops
\* and is logged by the job's handler.
TickSendFail ==
    /\ app = "v2" /\ tick.pc = "send"
    /\ tick' = IdleTick
    /\ last' = Raised("tick_send", tick.cur, Head(tick.items))
    /\ UNCHANGED <<app, tz, db, now, sent, cmd>>

\* --------------------------------- telegram_bot_v2: the command handlers
\* The application handles one update at a time (no concurrent_updates): a
\* handler starts only when none is in flight; the job queue runs beside it.
IdleCmd == [pc |-> "idle", user |-> 0, items |-> <<>>]

\* /start
Start(tid, h) ==
    /\ app = "v2" /\ cmd.pc = "idle"
    /\ LET r == add_user(db, tid, Handle(h))
       IN /\ Len(r.db.users) <= MaxUsers
          /\ db' = r.db
          /\ last' = NoReturn
    /\ UNCHANGED <<app, tz, now, sent, tick, cmd>>

\* NewsManager.add_user, called for a subscriber with the username start passes:
\* the subscriber's Telegram username, or the placeholder when they have none
AddUser(tid, h) ==
    /\ app = "v2" /\ cmd.pc = "idle"
    /\ LET r == add_user(db, tid, Handle(h))
       IN /\ Len(r.db.users) <= MaxUsers
          /\ db' = r.db
          /\ last' = [NoReturn EXCEPT !.op = "add_user", !.ret = r.ret,
                                      !.item = <<tid, h>>,
                                      !.known = KnownUser(db, tid)]
    /\ UNCHANGED <<app, tz, now, sent, tick, cmd>>

\* /addfeed <url>: add_feed_command
AddFeedCommand(tid, url, res1, res2) ==
    /\ app = "v2" /\ cmd.pc = "idle"
    /\ LET r == add_feed(db, url, res1, res2, now)
           s == subscribe_user_to_feed(r.db, tid, r.ret)
           d1 == IF r.ret > 0 THEN s.db ELSE r.db
       IN /\ Len(d1.users) <= MaxUsers /\ Len(d1.news) <= MaxNews
          /\ db' = d1
          /\ last' = NoReturn
    /\ UNCHANGED <<app, tz, now, sent, tick, cmd>>

\* /removefeed <feed_id>: remove_feed_command
RemoveFeedCommand(tid, fid) ==
    /\ app = "v2" /\ cmd.pc = "idle"
    /\ LET f == get_user_feeds(db, tid)
           r == unsubscribe_user_from_feed(f.db, tid, fid)
           d1 == IF fid \in f.ret THEN r.db ELSE f.db
       IN /\ Len(d1.users) <= MaxUsers
          /\ db' = d1
          /\ last' = NoReturn
    /\ UNCHANGED <<app, tz, now, sent, tick, cmd>>

\* button_callback, data "schedule_enable" / "schedule_disable" / "schedule_<n>"
ScheduleEnable(tid) ==
    /\ app = "v2" /\ cmd.pc = "idle"
    /\ LET r == enable_auto_delivery(db, tid, now)
       IN /\ Len(r.db.users) <= MaxUsers
          /\ db' = r.db
          /\ last' = NoReturn
    /\ UNCHANGED <<app, tz, now, sent, tick, cmd>>

ScheduleDisable(tid) ==
    /\ app = "v2" /\ cmd.pc = "idle"
    /\ LET r == disable_auto_delivery(db, tid)
       IN /\ Len(r.db.users) <= MaxUsers
          /\ db' = r.db
          /\ last' = NoReturn
    /\ UNCHANGED <<app, tz, now, sent, tick, cmd>>

ScheduleSet(tid, minutes) ==
    /\ app = "v2" /\ cmd.pc = "idle"
    /\ LET r == set_schedule(db, tid, minutes)
       IN /\ Len(r.db.users) <= MaxUsers
          /\ db' = r.db
          /\ last' = [NoReturn EXCEPT !.op = "set_schedule",
                                      !.ret = IF r.ret THEN 1 ELSE 0,
                                      !.item = <<tid, minutes>>]
    /\ UNCHANGED <<app, tz, now, sent, tick, cmd>>

\* NewsManager.get_user_schedule, called for a subscriber (status_command,
\* schedule_command, the settings menu)
GetUserSchedule(tid) ==
    /\ app = "v2" /\ cmd.pc = "idle"
    /\ LET r == get_user_schedule(db, tid)
       IN /\ Len(r.db.users) <= MaxUsers
          /\ db' = r.db
          /\ last' = [NoReturn EXCEPT !.op = "get_user_schedule", !.ret = tid,
                                      !.item = <<r.ret>>,
                                      !.known = HasRow(db.schedule, Resolve(db, tid))]
    /\ UNCHANGED <<app, tz, now, sent, tick, cmd>>

\* NewsManager.mark_news_delivered, called for a subscriber and a stored item
MarkNewsDelivered(tid, nid) ==
    /\ app = "v2" /\ cmd.pc = "idle"
    /\ nid \in DOMAIN db.news
    /\ LET r == mark_news_delivered(db, tid, nid)
       IN /\ Len(r.db.users) <= MaxUsers
          /\ db' = r.db
          /\ last' = [NoReturn EXCEPT !.op = "mark_news_delivered",
                                      !.ret = IF r.ret THEN 1 ELSE 0,
                                      !.item = <<tid, nid>>,
                                      !.known = HasReceipt(db, Resolve(db, tid), nid)]
    /\ UNCHANGED <<app, tz, now, sent, tick, cmd>>

\* NewsManager.get_user_feeds, get_user_preferences and get_user_language, called
\* for a subscriber (status_command, list_feeds_command, settings_command)
GetUserFeeds(tid) ==
    /\ app = "v2" /\ cmd.pc = "idle"
    /\ LET r == get_user_feeds(db, tid)
       IN /\ Len(r.db.users) <= MaxUsers
          /\ db' = r.db
          /\ last' = Returned("get_user_feeds", tid)
    /\ UNCHANGED <<app, tz, now, sent, tick, cmd>>

GetUserPreferences(tid) ==
    /\ app = "v2" /\ cmd.pc = "idle"
    /\ LET r == get_user_preferences(db, tid)
       IN /\ Len(r.db.users) <= MaxUsers
          /\ db' = r.db
          /\ last' = Returned("get_user_preferences", tid)
    /\ UNCHANGED <<app, tz, now, sent, tick, cmd>>

GetUserLanguage(tid) ==
    /\ app = "v2" /\ cmd.pc = "idle"
    /\ LET r == get_user_language(db, tid)
       IN /\ Len(r.db.users) <= MaxUsers
          /\ db' = r.db
          /\ last' = Returned("get_user_language", tid)
    /\ UNCHANGED <<app, tz, now, sent, tick, cmd>>

\* NewsManager.subscribe_user_to_feed and unsubscribe_user_from_feed, called for a
\* subscriber and a feed_id (known: the pair had a row)
SubscribeUserToFeed(tid, fid) ==
    /\ app = "v2" /\ cmd.pc = "idle"
    /\ LET r == subscribe_user_to_feed(db, tid, fid)
       IN /\ Len(r.db.users) <= MaxUsers
          /\ db' = r.db
          /\ last' = [NoReturn EXCEPT !.op = "subscribe_user_to_feed",
                                      !.ret = IF r.ret THEN 1 ELSE 0,
                                      !.item = <<tid, fid>>,
                                      !.known = Subscribed(db, Resolve(db, tid), fid)]
    /\ UNCHANGED <<app, tz, now, sent, tick, cmd>>

UnsubscribeUserFromFeed(tid, fid) ==
    /\ app = "v2" /\ cmd.pc = "idle"
    /\ LET r == unsubscribe_user_from_feed(db, tid, fid)
       IN /\ Len(r.db.users) <= MaxUsers
          /\ db' = r.db
          /\ last' = [NoReturn EXCEPT !.op = "unsubscribe_user_from_feed",
                                      !.ret = IF r.ret THEN 1 ELSE 0,
                                      !.item = <<tid, fid>>,
                                      !.known = Subscribed(db, Resolve(db, tid), fid)]
    /\ UNCHANGED <<app, tz, now, sent, tick, cmd>>

\* NewsManager.set_voice_enabled, called for a subscriber
SetVoice(tid, enabled) ==
    /\ app = "v2" /\ cmd.pc = "idle"
    /\ LET r == set_voice_enabled(db, tid, enabled)
       IN /\ Len(r.db.users) <= MaxUsers
          /\ db' = r.db
          /\ last' = NoReturn
    /\ UNCHANGED <<app, tz, now, sent, tick, cmd>>

\* NewsManager.add_feed and NewsManager.check_feeds, called on their own
RegisteredUrls(d) == {d.feeds[i].url : i \in DOMAIN d.feeds}

EntryLinks(entries) == {LinkOf(entries[i]) : i \in DOMAIN entries}

Polled(op, ret, d, fetch) ==
    [op |-> op, ret |-> ret, item |-> <<>>,
     failed |-> {i \in DOMAIN d.feeds : fetch[d.feeds[i].url].out # "ok"},
     known |-> \E i \in DOMAIN d.feeds :
                  /\ fetch[d.feeds[i].url].out = "ok"
                  /\ \E l \in EntryLinks(fetch[d.feeds[i].url].entries) : HasLink(d.news, l)]

AddFeed(url, res1, res2) ==
    /\ app = "v2" /\ cmd.pc = "idle"
    /\ LET r == add_feed(db, url, res1, res2, now)
       IN /\ Len(r.db.news) <= MaxNews
          /\ db' = r.db
          /\ last' = [Returned("add_feed", r.ret) EXCEPT !.item = <<url, res1>>]
    /\ UNCHANGED <<app, tz, now, sent, tick, cmd>>

CheckFeeds(fetch) ==
    /\ app = "v2" /\ cmd.pc = "idle"
    /\ LET r == check_feeds(db, fetch, now)
       IN /\ Len(r.db.news) <= MaxNews
          /\ db' = r.db
          /\ last' = Polled("check_feeds", r.ret, db, fetch)
    /\ UNCHANGED <<app, tz, now, sent, tick, cmd>>

\* NewsManager._fetch_feed_items, called for one registered feed
FetchFeedItems(fid, res) ==
    /\ app = "v2" /\ cmd.pc = "idle"
    /\ fid \in DOMAIN db.feeds
    /\ LET r == fetch_feed_items(db, fid, res, now)
       IN /\ Len(r.db.news) <= MaxNews
          /\ db' = r.db
          /\ last' = [Returned("fetch_feed_items", r.ret) EXCEPT !.item = <<fid, res>>]
    /\ UNCHANGED <<app, tz, now, sent, tick, cmd>>

\* /getnews: get_news_command up to its first await
GetNewsStart(tid, fetch) ==
    /\ app = "v2" /\ cmd.pc = "idle"
    /\ LET c == check_feeds(db, fetch, now)
           r == get_undelivered_news(c.db, tid)
       IN /\ Len(r.db.users) <= MaxUsers
          /\ (Len(r.db.news) <= MaxNews \/ r.db.news = db.news)
          /\ db' = r.db
          /\ cmd' = IF r.ret = <<>> THEN IdleCmd
                    ELSE [pc |-> "ack", user |-> tid,
                          items |-> Take(r.ret, BatchCap)]
          /\ last' = NoReturn
    /\ UNCHANGED <<app, tz, now, sent, tick>>

\* await update.message.reply_text("Fetching your latest news...")
GetNewsAck(ok) ==
    /\ cmd.pc = "ack"
    /\ cmd' = IF ok THEN [cmd EXCEPT !.pc = "transform"] ELSE IdleCmd
    /\ last' = NoReturn
    /\ UNCHANGED <<app, tz, db, now, sent, tick>>

\* await llm_manager.translate_text(...) (its failure is caught) and
\* await news_manager.get_voice_file(...) (None on failure): voice tells whether a
\* voice file came back.
GetNewsTransform(voice) ==
    /\ cmd.pc = "transform"
    /\ cmd' = [cmd EXCEPT !.pc = "send"]
    /\ last' = NoReturn
    /\ UNCHANGED <<app, tz, db, now, sent, tick>>

\* await send_media_group(...) / reply_text(...) returns: the receipt, then the
\* next item or the end of the batch.
GetNewsSendOk ==
    /\ cmd.pc = "send"
    /\ sent' = Delivered(cmd.user, Head(cmd.items))
    /\ LET d1 == mark_news_delivered(db, cmd.user, Head(cmd.items)).db
           d2 == update_last_delivery(d1, cmd.user, now).db
       IN IF Tail(cmd.items) # <<>>
          THEN /\ db' = d1
               /\ cmd' = [cmd EXCEPT !.pc = "transform", !.items = Tail(@)]
          ELSE /\ db' = d2
               /\ cmd' = IdleCmd
    /\ last' = Returned("cmd_send", 1)
    /\ UNCHANGED <<app, tz, now, tick>>

\* the send raises: the exception leaves the handler
GetNewsSendFail ==
    /\ cmd.pc = "send"
    /\ cmd' = IdleCmd
    /\ last' = Raised("cmd_send", cmd.user, Head(cmd.items))
    /\ UNCHANGED <<app, tz, db, now, sent, tick>>

\* time passes
AdvanceTime ==
    /\ now + TimeStep <= MaxTime
    /\ now' = now + TimeStep
    /\ last' = NoReturn
    /\ UNCHANGED <<app, tz, db, sent, tick, cmd>>

\* ------------------------------------------- telegram_bot (first version)
\* It keys user_feeds, news_delivery and user_schedule by the Telegram id itself.

\* schema.sql: users.username and rss_feeds.feed_url are UNIQUE
UsernameUnique == TRUE
FeedUrlUnique == TRUE

TidName(tid) == [kind |-> "tid", v |-> tid]

\* Database.add_user: [db, raised]
Database_add_user(d, username, email) ==
    IF UsernameUnique /\ \E i \in DOMAIN d.users : d.users[i].username = username
    THEN [db |-> d, raised |-> TRUE]
    ELSE [db |-> [d EXCEPT !.users = Append(@, [username |-> username, email |-> email])],
          raised |-> FALSE]

\* Database.add_rss_feed: [db, ret, raised]
Database_add_rss_feed(d, url) ==
    IF FeedUrlUnique /\ \E i \in DOMAIN d.feeds : d.feeds[i].url = url
    THEN [db |-> d, ret |-> 0, raised |-> TRUE]
    ELSE [db |-> [d EXCEPT !.feeds = Append(@, [url |-> url, last_updated |-> NULL])],
          ret |-> Len(d.feeds) + 1, raised |-> FALSE]

\* Database.subscribe_user_to_feed
Database_subscribe_user_to_feed(d, tid, fid) ==
    [d EXCEPT !.user_feeds = @ (+) SetToBag({<<tid, fid>>})]

\* Database.add_news_item
Database_add_news_item(d, fid, link, body, t) ==
    [d EXCEPT !.news = InsertNewsItem(@, fid, [link |-> link, date |-> NULL], body, t)]

\* Database.mark_news_delivered (a plain INSERT): [db, raised]
Database_mark_news_delivered(d, tid, nid) ==
    IF DeliveryUnique /\ HasReceipt(d, tid, nid)
    THEN [db |-> d, raised |-> TRUE]
    ELSE [db |-> [d EXCEPT !.delivery = InsertDelivery(@, tid, nid)], raised |-> FALSE]

\* Database.get_undelivered_news
Database_get_undelivered_news(d, tid) == OrderByPubDateDesc(d, Eligible(d, tid))

\* Database.update_feed_last_updated
Database_update_feed_last_updated(d, fid, t) ==
    [d EXCEPT !.feeds[fid].last_updated = t]

\* start
V1Start(tid, h) ==
    /\ app = "v1" /\ cmd.pc = "idle"
    /\ LET r == Database_add_user(db, TidName(tid), h)
       IN /\ Len(r.db.users) <= MaxUsers
          /\ db' = IF r.raised THEN r.db
                   ELSE [r.db EXCEPT !.schedule = InsertOrIgnoreRow(@, tid,
                            [enabled |-> FALSE, interval |-> DefaultInterval,
                             last |-> NULL])]
          /\ last' = NoReturn
    /\ UNCHANGED <<app, tz, now, sent, tick, cmd>>

\* The users row left by DELETE FROM users: its user_id is not given to a later row
DeletedUser == [username |-> [kind |-> "deleted", v |-> 0], email |-> NULL]

\* stop: the DELETEs take the Telegram id for the user_id of all three tables
V1Stop(tid) ==
    /\ app = "v1" /\ cmd.pc = "idle"
    /\ db' = [db EXCEPT
                 !.user_feeds = [p \in {q \in DOMAIN @ : q[1] # tid} |-> @[p]],
                 !.delivery = [p \in {q \in DOMAIN @ : q[1] # tid} |-> @[p]],
                 !.users = [i \in DOMAIN @ |-> IF i = tid THEN DeletedUser ELSE @[i]]]
    /\ last' = Returned("v1_stop", tid)
    /\ UNCHANGED <<app, tz, now, sent, tick, cmd>>

\* add_feed
V1AddFeed(tid, url, res) ==
    /\ app = "v1" /\ cmd.pc = "idle"
    /\ LET r == Database_add_rss_feed(db, url)
           ok == res.out # "raise" /\ res.entries # <<>> /\ ~r.raised
       IN /\ db' = IF ok THEN Database_subscribe_user_to_feed(r.db, tid, r.ret) ELSE db
          /\ last' = NoReturn
    /\ UNCHANGED <<app, tz, now, sent, tick, cmd>>

\* The entries loop of check_feeds (telegram_bot): an exception while entry k is
\* processed is caught per entry.
RECURSIVE V1EntriesLoop(_, _, _, _, _, _, _)
V1EntriesLoop(d, fid, entries, i, k, ver, t) ==
    IF i > Len(entries) THEN d
    ELSE IF i = k \/ HasLink(d.news, entries[i].link)
         THEN V1EntriesLoop(d, fid, entries, i + 1, k, ver, t)
         ELSE V1EntriesLoop(Database_add_news_item(d, fid, entries[i].link, ver, t),
                            fid, entries, i + 1, k, ver, t)

\* One pass of check_feeds (telegram_bot) over the feeds from feed i on
RECURSIVE V1CheckFeedsFrom(_, _, _, _)
V1CheckFeedsFrom(d, i, fetch, t) ==
    IF i > Len(d.feeds) THEN d
    ELSE LET res == fetch[d.feeds[i].url]
             d1 == V1EntriesLoop(d, i, res.entries, 1,
                                 IF res.out = "raise" THEN res.k ELSE 0, res.ver, t)
         IN IF (res.out = "raise" /\ res.k = 0) \/ res.entries = <<>>
            THEN V1CheckFeedsFrom(d, i + 1, fetch, t)
            ELSE V1CheckFeedsFrom(Database_update_feed_last_updated(d1, i, t),
                                  i + 1, fetch, t)

V1CheckFeeds(fetch) ==
    /\ app = "v1"
    /\ LET d1 == V1CheckFeedsFrom(db, 1, fetch, now)
       IN /\ Len(d1.news) <= MaxNews
          /\ db' = d1
          /\ last' = Polled("v1_check_feeds", 0, db, fetch)
    /\ UNCHANGED <<app, tz, now, sent, tick, cmd>>

\* enable_auto
V1EnableAuto(tid) ==
    /\ app = "v1" /\ cmd.pc = "idle"
    /\ db' = [db EXCEPT !.schedule =
                 UpdateRow(@, tid, "enabled", TRUE)]
    /\ last' = NoReturn
    /\ UNCHANGED <<app, tz, now, sent, tick, cmd>>

\* SELECT user_id FROM user_schedule WHERE enabled = TRUE
RECURSIVE V1EnabledUsers(_, _)
V1EnabledUsers(d, uid) ==
    IF uid > MaxTid THEN <<>>
    ELSE (IF HasRow(d.schedule, uid) /\ d.schedule[uid].enabled THEN <<uid>> ELSE <<>>)
         \o V1EnabledUsers(d, uid + 1)

\* check_scheduled_deliveries from the head of the users still to process:
\* deliver_news_to_user up to its first send.
RECURSIVE V1Scan(_, _, _)
V1Scan(d, rows, t) ==
    IF rows = <<>> THEN IdleTick
    ELSE LET uid == Head(rows)
             news_items == Database_get_undelivered_news(d, uid)
         IN IF ~HasRow(d.schedule, uid) \/ ~d.schedule[uid].enabled
               \/ ~Due(d.schedule[uid], t) \/ news_items = <<>>
            THEN V1Scan(d, Tail(rows), t)
            ELSE [pc |-> "send", rows |-> Tail(rows), cur |-> uid,
                  items |-> news_items, voice |-> FALSE]

V1TickStart ==
    /\ app = "v1" /\ tick.pc = "idle"
    /\ tick' = V1Scan(db, V1EnabledUsers(db, 1), LocalNow)
    /\ last' = NoReturn
    /\ UNCHANGED <<app, tz, db, now, sent, cmd>>

\* After the item at the head of the batch: the next send, or the end of the
\* batch (last_delivery is set) and the next users.
V1AfterItem(d) ==
    IF Tail(tick.items) # <<>>
    THEN [db |-> d, tick |-> [tick EXCEPT !.items = Tail(@)]]
    ELSE LET d1 == [d EXCEPT !.schedule = UpdateRow(@, tick.cur, "last", now)]
         IN [db |-> d1, tick |-> V1Scan(d1, tick.rows, LocalNow)]

\* await context.bot.send_message(...) returns, in deliver_news_to_user
V1TickSendOk ==
    /\ app = "v1" /\ tick.pc = "send"
    /\ sent' = Delivered(tick.cur, Head(tick.items))
    /\ LET r == V1AfterItem(Database_mark_news_delivered(db, tick.cur,
                                                         Head(tick.items)).db)
       IN db' = r.db /\ tick' = r.tick
    /\ last' = Returned("tick_send", 1)
    /\ UNCHANGED <<app, tz, now, cmd>>

\* the send raises: logged, and the loop goes on
V1TickSendFail ==
    /\ app = "v1" /\ tick.pc = "send"
    /\ LET r == V1AfterItem(db)
       IN db' = r.db /\ tick' = r.tick
    /\ last' = Raised("tick_send", tick.cur, Head(tick.items))
    /\ UNCHANGED <<app, tz, now, sent, cmd>>

\* ------------------------------------------------------------ specifications
Init ==
    /\ app \in {"v1", "v2"}
    /\ db = EmptyDb
    /\ now = 0
    /\ tz = 0
    /\ sent = {}
    /\ tick = IdleTick
    /\ cmd = IdleCmd
    /\ last = NoReturn

\* Delivery: the sources publish two items with distinct publication times; a
\* source may also be unreachable when polled.
PublishedEntries == <<[link |-> 1, date |-> 10], [link |-> 2, date |-> 20]>>

Published == FetchOk(PublishedEntries, 1)

Next ==
    \/ \E t \in Tids, h \in {0} : Start(t, h)
    \/ \E t \in Tids : AddFeedCommand(t, 1, Published, Published)
    \/ \E t \in Tids : ScheduleEnable(t)
    \/ \E t \in Tids : SetVoice(t, TRUE)
    \/ TickStart
    \/ TickSendOk
    \/ TickSendFail
    \/ \E t \in Tids : GetNewsStart(t, [u \in Urls |-> Published])
    \/ \E ok \in BOOLEAN : GetNewsAck(ok)
    \/ \E v \in BOOLEAN : GetNewsTransform(v)
    \/ GetNewsSendOk
    \/ GetNewsSendFail
    \/ \E t \in Tids, h \in {0} : V1Start(t, h)
    \/ \E t \in Tids : V1AddFeed(t, 1, Published)
    \/ V1CheckFeeds([u \in Urls |-> Published])
    \/ \E t \in Tids : V1EnableAuto(t)
    \/ V1TickStart
    \/ V1TickSendOk
    \/ V1TickSendFail
    \/ AdvanceTime

Spec == Init /\ [][Next]_vars

\* Ingestion: the sources list up to MaxEntries entries with links of Links and no
\* publication time; a fetch may also fail.
Entries == [link : Links, date : {NULL}]

Versions == {1}

FetchInputs == FetchResults(Entries, MaxEntries, Versions)

VerifyInputs == {FetchOk(<<[link |-> 1, date |-> NULL]>>, 1), FetchBozo,
                 FetchRaise(<<>>, 0, 1)}

NextIngest ==
    \/ \E u \in Urls, res1 \in VerifyInputs, res2 \in FetchInputs : AddFeed(u, res1, res2)
    \/ \E fetch \in [RegisteredUrls(db) -> FetchInputs] : CheckFeeds(fetch)
    \/ \E f \in Urls, res \in FetchInputs : FetchFeedItems(f, res)
    \/ \E u \in Urls : V1AddFeed(1, u, FetchOk(<<[link |-> 1, date |-> NULL]>>, 1))
    \/ \E fetch \in [RegisteredUrls(db) -> FetchInputs] : V1CheckFeeds(fetch)
    \/ AdvanceTime

SpecIngest == Init /\ [][NextIngest]_vars

\* Progress of scheduled delivery in telegram_bot_v2, for one subscriber who
\* enables delivery at time 0: the job queue keeps running the job (run_repeating),
\* time passes, and the sink does not fail forever.
InitLive == Init /\ app = "v2"

NextLive ==
    \/ Start(1, 0)
    \/ \E t \in Tids : AddFeedCommand(t, 1, Published, Published)
    \/ (now = 0 /\ ScheduleEnable(1))
    \/ SetVoice(1, TRUE)
    \/ TickStart
    \/ TickSendOk
    \/ TickSendFail
    \/ AdvanceTime

\* ENABLED <<TickStart>>_vars, written out
TickStartEnabled ==
    /\ app = "v2" /\ tick.pc = "idle"
    /\ LET r == TickScan(db, EnabledRows(db, 1), LocalNow)
       IN Len(r.db.users) <= MaxUsers /\ <<r.db, r.tick, NoReturn>> # <<db, tick, last>>

\* WF_vars(TickStart)
TickStartFair == []<>~TickStartEnabled \/ []<><<TickStart>>_vars

SpecLive ==
    /\ InitLive /\ [][NextLive]_vars
    /\ TickStartFair /\ WF_vars(AdvanceTime) /\ SF_vars(TickSendOk)

\* Ingestion in telegram_bot_v2 without /getnews: source 1 lists its first entry
\* from the start and its second entry at every later time.  The job queue keeps
\* running its one job (start_scheduler), time passes and the sink does not fail
\* forever.
PublishedAt(t) ==
    FetchOk(IF t > 0 THEN PublishedEntries ELSE Take(PublishedEntries, 1), 1)

NextPoll ==
    \/ \E t \in Tids : Start(t, 0)
    \/ \E t \in Tids : AddFeedCommand(t, 1, PublishedAt(now), PublishedAt(now))
    \/ ScheduleEnable(1)
    \/ TickStart
    \/ TickSendOk
    \/ TickSendFail
    \/ AdvanceTime

SpecPoll ==
    /\ InitLive /\ [][NextPoll]_vars
    /\ TickStartFair /\ WF_vars(AdvanceTime) /\ SF_vars(TickSendOk)

\* The store operations of NewsManager applied to a store the program has built:
\* subscriber 1 is registered (/start) and follows the feeds of S; k news items are
\* stored, item i from feed feedOf[i] with pub_date dateOf[i]; the subscriber has
\* receipts for the items of R and has chosen m with the max_items buttons.  In
\* the stores drawn the subscriber follows feed 1 and not feed 2, and the receipts
\* are among the first two items.
MaxStored == 4

PubDates == {10, 20, 30}

Limits == {3, 5, 10}

Store(k, feedOf, dateOf, S, R, m) ==
    LET u == add_user(EmptyDb, 1, Handle(0)).db
    IN [u EXCEPT !.feeds = [f \in Urls |-> [url |-> f, last_updated |-> 0]],
                 !.news = [i \in 1..k |-> [feed |-> feedOf[i], link |-> i,
                                           pub_date |-> dateOf[i], body |-> 1]],
                 !.user_feeds = SetToBag({<<1, f>> : f \in S}),
                 !.delivery = SetToBag({<<1, n>> : n \in R}),
                 !.prefs[1].max_news_items = m]

InitSelect ==
    /\ app = "v2"
    /\ \E k \in 0..MaxStored :
          \E feedOf \in [1..k -> Urls], dateOf \in [1..k -> PubDates],
             S \in {{1}}, R \in SUBSET (1..Min(k, 2)), m \in Limits :
             db = Store(k, feedOf, dateOf, S, R, m)
    /\ now = 0
    /\ tz = 0
    /\ sent = {}
    /\ tick = IdleTick
    /\ cmd = IdleCmd
    /\ last = NoReturn

\* NewsManager.get_undelivered_news called for the subscriber of Telegram id tid
GetUndeliveredNews(tid) ==
    /\ app = "v2" /\ cmd.pc = "idle"
    /\ LET r == get_undelivered_news(db, tid)
       IN /\ Len(r.db.users) <= MaxUsers
          /\ db' = r.db
          /\ last' = [NoReturn EXCEPT !.op = "get_undelivered_news",
                                      !.ret = tid, !.item = r.ret]
    /\ UNCHANGED <<app, tz, now, sent, tick, cmd>>

NextSelect == \E t \in Tids : GetUndeliveredNews(t)

SpecSelect == InitSelect /\ [][NextSelect]_vars

\* Delivery in telegram_bot_v2 to a subscriber with a backlog: subscriber 1 follows
\* feed 1, which has k stored items of distinct publication times and none
\* delivered, has chosen m with the max_items buttons, and enabled scheduled
\* delivery at time 0.  The sources list nothing new when polled.
MaxBacklog == 6

InitBatch ==
    /\ app = "v2"
    /\ \E k \in 0..MaxBacklog, m \in Limits :
          db = enable_auto_delivery(
                  Store(k, [i \in 1..k |-> 1], [i \in 1..k |-> 10 * i], {1}, {}, m),
                  1, 0).db
    /\ now = 0
    /\ tz = 0
    /\ sent = {}
    /\ tick = IdleTick
    /\ cmd = IdleCmd
    /\ last = NoReturn

NextBatch ==
    \/ TickStart
    \/ TickSendOk
    \/ TickSendFail
    \/ GetNewsStart(1, [u \in Urls |-> FetchBozo])
    \/ \E ok \in BOOLEAN : GetNewsAck(ok)
    \/ \E v \in BOOLEAN : GetNewsTransform(v)
    \/ GetNewsSendOk
    \/ GetNewsSendFail
    \/ AdvanceTime

SpecBatch == InitBatch /\ [][NextBatch]_vars

\* Scheduled delivery on machines of several time zones: SQLite's
\* CURRENT_TIMESTAMP is UTC and datetime.now() is the local time.
Zones == {-60, 0, 60}

InitDue ==
    /\ app \in {"v1", "v2"}
    /\ db = EmptyDb
    /\ now = 0
    /\ tz \in Zones
    /\ sent = {}
    /\ tick = IdleTick
    /\ cmd = IdleCmd
    /\ last = NoReturn

NextDue ==
    \/ \E t \in Tids : Start(t, 0)
    \/ \E t \in Tids : AddFeedCommand(t, 1, Published, Published)
    \/ \E t \in Tids : ScheduleEnable(t)
    \/ TickStart
    \/ TickSendOk
    \/ TickSendFail
    \/ \E t \in Tids : V1Start(t, 0)
    \/ \E t \in Tids : V1AddFeed(t, 1, Published)
    \/ V1CheckFeeds([u \in Urls |-> Published])
    \/ \E t \in Tids : V1EnableAuto(t)
    \/ V1TickStart
    \/ V1TickSendOk
    \/ V1TickSendFail
    \/ AdvanceTime

SpecDue == InitDue /\ [][NextDue]_vars

\* The schedule operations of telegram_bot_v2 beside delivery: subscriber 1
\* registers, follows a feed, pulls news, enables and disables delivery; both
\* subscribers set and read a schedule.  The interval buttons carry 30 or 60, and
\* a callback may carry other digits.
Intervals == {3, 30, 45, 60}

NextSchedule ==
    \/ Start(1, 0)
    \/ AddFeedCommand(1, 1, Published, Published)
    \/ ScheduleEnable(1)
    \/ ScheduleDisable(1)
    \/ \E t \in Tids, m \in Intervals : ScheduleSet(t, m)
    \/ \E t \in Tids : GetUserSchedule(t)
    \/ TickStart
    \/ TickSendOk
    \/ TickSendFail
    \/ GetNewsStart(1, [u \in Urls |-> Published])
    \/ \E ok \in BOOLEAN : GetNewsAck(ok)
    \/ \E v \in BOOLEAN : GetNewsTransform(v)
    \/ GetNewsSendOk
    \/ GetNewsSendFail
    \/ AdvanceTime

SpecSchedule == InitLive /\ [][NextSchedule]_vars

\* Delivery recording on its own: subscribers register and follow a feed, and
\* mark_news_delivered is called for any subscriber and stored item, any number
\* of times.
NextReceipt ==
    \/ \E t \in Tids : Start(t, 0)
    \/ \E t \in Tids : AddFeedCommand(t, 1, Published, Published)
    \/ \E t \in Tids, n \in 1..MaxNews : MarkNewsDelivered(t, n)

SpecReceipt == InitLive /\ [][NextReceipt]_vars

\* Scheduled delivery with the commands handled between the runs of the job: while
\* a run of the job is in flight no command is handled, so a schedule that is
\* disabled when the run starts is disabled throughout the run.
Quiet == tick.pc = "idle"

NextTick ==
    \/ Quiet /\ \E t \in Tids : Start(t, 0)
    \/ Quiet /\ \E t \in Tids : AddFeedCommand(t, 1, Published, Published)
    \/ Quiet /\ \E t \in Tids : ScheduleEnable(t)
    \/ Quiet /\ \E t \in Tids : ScheduleDisable(t)
    \/ TickStart
    \/ TickSendOk
    \/ TickSendFail
    \/ Quiet /\ \E t \in Tids : V1Start(t, 0)
    \/ Quiet /\ \E t \in Tids : V1AddFeed(t, 1, Published)
    \/ Quiet /\ V1CheckFeeds([u \in Urls |-> Published])
    \/ Quiet /\ \E t \in Tids : V1EnableAuto(t)
    \/ V1TickStart
    \/ V1TickSendOk
    \/ V1TickSendFail
    \/ AdvanceTime

SpecTick == Init /\ [][NextTick]_vars

\* The command surfaces of both programs beside scheduled delivery: subscribers
\* register, follow and leave a feed, enable and disable delivery, and in
\* telegram_bot also /stop.
NextCommands ==
    \/ \E t \in Tids : Start(t, 0)
    \/ \E t \in Tids : AddFeedCommand(t, 1, Published, Published)
    \/ \E t \in Tids, f \in Urls : RemoveFeedCommand(t, f)
    \/ \E t \in Tids : ScheduleEnable(t)
    \/ \E t \in Tids : ScheduleDisable(t)
    \/ TickStart
    \/ TickSendOk
    \/ TickSendFail
    \/ \E t \in Tids : V1Start(t, 0)
    \/ \E t \in Tids : V1Stop(t)
    \/ \E t \in Tids : V1AddFeed(t, 1, Published)
    \/ V1CheckFeeds([u \in Urls |-> Published])
    \/ \E t \in Tids : V1EnableAuto(t)
    \/ V1TickStart
    \/ V1TickSendOk
    \/ V1TickSendFail
    \/ AdvanceTime

SpecCommands == Init /\ [][NextCommands]_vars

\* The read operations of NewsManager beside registration: a subscriber may read
\* before or after /start, /addfeed and enabling delivery.
NextRead ==
    \/ \E t \in Tids : Start(t, 0)
    \/ \E t \in Tids : AddFeedCommand(t, 1, Published, Published)
    \/ \E t \in Tids : ScheduleEnable(t)
    \/ \E t \in Tids : GetUndeliveredNews(t)
    \/ \E t \in Tids : GetUserSchedule(t)
    \/ \E t \in Tids : GetUserFeeds(t)
    \/ \E t \in Tids : GetUserPreferences(t)
    \/ \E t \in Tids : GetUserLanguage(t)

SpecRead == InitLive /\ [][NextRead]_vars

\* Registration beside the schedule commands: a subscriber registers under their
\* own Telegram username (the number of their id stands for it) or, having none,
\* under the placeholder; they may use the schedule buttons before and after.
NextRegister ==
    \/ \E t \in Tids : \E h \in {0, t} : AddUser(t, h)
    \/ \E t \in Tids : ScheduleEnable(t)
    \/ \E t \in Tids : ScheduleDisable(t)
    \/ \E t \in Tids : ScheduleSet(t, 30)
    \/ AdvanceTime

SpecRegister == InitLive /\ [][NextRegister]_vars

\* Subscriptions on their own: subscribers register, and subscribe_user_to_feed
\* and unsubscribe_user_from_feed are called for any subscriber and feed, in any
\* order and any number of times.
NextSubscribe ==
    \/ \E t \in Tids : Start(t, 0)
    \/ \E t \in Tids, f \in Urls : SubscribeUserToFeed(t, f)
    \/ \E t \in Tids, f \in Urls : UnsubscribeUserFromFeed(t, f)

SpecSubscribe == InitLive /\ [][NextSubscribe]_vars

\* The stored items under the whole command surface of telegram_bot_v2: source 1
\* lists its first entry from the start and its second entry at every later time;
\* a poll may also fail while the second entry is read.
Ingests ==
    \/ \E t \in Tids : AddFeedCommand(t, 1, PublishedAt(now), PublishedAt(now))
    \/ \E t \in Tids : GetNewsStart(t, [u \in Urls |-> PublishedAt(now)])
    \/ GetNewsStart(1, [u \in Urls |-> FetchRaise(PublishedEntries, 2, 1)])

NextItems ==
    \/ Ingests
    \/ \E t \in Tids : Start(t, 0)
    \/ \E t \in Tids : RemoveFeedCommand(t, 1)
    \/ ScheduleEnable(1)
    \/ ScheduleDisable(1)
    \/ TickStart
    \/ TickSendOk
    \/ TickSendFail
    \/ \E ok \in BOOLEAN : GetNewsAck(ok)
    \/ \E v \in BOOLEAN : GetNewsTransform(v)
    \/ GetNewsSendOk
    \/ GetNewsSendFail
    \/ AdvanceTime

SpecItems == InitLive /\ [][NextItems]_vars

\* /getnews beside scheduled delivery on machines of several time zones, for the
\* subscriber with a backlog of InitBatch.
InitPull ==
    /\ app = "v2"
    /\ \E k \in 0..MaxBacklog, m \in Limits :
          db = enable_auto_delivery(
                  Store(k, [i \in 1..k |-> 1], [i \in 1..k |-> 10 * i], {1}, {}, m),
                  1, 0).db
    /\ now = 0
    /\ tz \in Zones
    /\ sent = {}
    /\ tick = IdleTick
    /\ cmd = IdleCmd
    /\ last = NoReturn

SpecPull == InitPull /\ [][NextBatch]_vars

\* Subscription changes beside delivery recording in telegram_bot_v2: subscribers
\* register and follow feed 1 (/addfeed), an eligible item is recorded as
\* delivered, and they leave and rejoin a feed and ask for their undelivered
\* news in any order.
NextResubscribe ==
    \/ \E t \in Tids : Start(t, 0)
    \/ \E t \in Tids : AddFeedCommand(t, 1, Published, Published)
    \/ \E t \in Tids, n \in 1..MaxNews :
          n \in Eligible(db, Resolve(db, t)) /\ MarkNewsDelivered(t, n)
    \/ \E t \in Tids, f \in Urls : SubscribeUserToFeed(t, f)
    \/ \E t \in Tids, f \in Urls : UnsubscribeUserFromFeed(t, f)
    \/ \E t \in Tids : GetUndeliveredNews(t)

SpecResubscribe == InitLive /\ [][NextResubscribe]_vars

\* Ingestion in telegram_bot_v2 from sources that list entries without a link: a
\* source lists up to MaxEntries entries, each one of two distinct entries without
\* a link or an entry with a link; a fetch of one feed may also fail.
LinklessInputs ==
    FetchResults({[link |-> NULL, date |-> 10], [link |-> NULL, date |-> 20],
                  [link |-> 1, date |-> 10]}, MaxEntries, Versions)

NextLinkless ==
    \/ \E u \in Urls, res2 \in LinklessInputs :
          AddFeed(u, FetchOk(<<[link |-> NULL, date |-> 10]>>, 1), res2)
    \/ \E f \in Urls, res \in LinklessInputs : FetchFeedItems(f, res)
    \/ \E fetch \in [RegisteredUrls(db) -> {r \in LinklessInputs : r.out = "ok"}] :
          CheckFeeds(fetch)

SpecLinkless == InitLive /\ [][NextLinkless]_vars

\* ------------------------------------------------------------- properties

\* The max_news_items of the subscriber of users row u
LimitOf(d, u) ==
    IF HasRow(d.prefs, u) THEN d.prefs[u].max_news_items ELSE DefaultMaxItems

TickSendReturned ==
    app = "v2" /\ tick.pc = "send" /\ last'.op = "tick_send" /\ last'.ret = 1

TickSendRaised ==
    app = "v2" /\ tick.pc = "send" /\ last'.op = "tick_send" /\ last'.ret = 0

\* C1: in check_and_deliver_news, when the send of an item to a subscriber
\* returns, the receipt for that subscriber and item is written by the job before
\* it goes on or ends, whatever the subscriber's preferences are.
C1_SentThenReceipted ==
    [][TickSendReturned =>
          HasReceipt(db', Resolve(db, tick.cur), Head(tick.items))]_vars

\* C2: the scheduler job and get_news_command never hold, at the same time, a
\* batch for the same subscriber with an item in common.
C2_OneBatchInFlight ==
    ~(/\ app = "v2" /\ tick.pc = "send" /\ cmd.pc # "idle"
      /\ tick.cur = cmd.user
      /\ Range(tick.items) \cap Range(cmd.items) # {})

\* C3: there is at most one receipt for each (subscriber, item), and
\* get_undelivered_news returns no item that has a receipt for the subscriber.
C3_OneReceipt ==
    /\ \A p \in BagToSet(db.delivery) : CopiesIn(p, db.delivery) = 1
    /\ app = "v2" =>
          \A t \in Tids :
             LET r == get_undelivered_news(db, t)
             IN \A i \in DOMAIN r.ret : ~HasReceipt(r.db, Resolve(r.db, t), r.ret[i])

\* get_news_command is about to send, and then to record, an item that the
\* scheduler job has receipted for the same subscriber in the meantime
C3_Witness ==
    /\ app = "v2" /\ cmd.pc = "send"
    /\ HasReceipt(db, Resolve(db, cmd.user), Head(cmd.items))

\* The sink delivered item n to the chat of the subscriber of row u
SentTo(u, n) ==
    IF app = "v1" THEN <<u, n>> \in sent
    ELSE \E c \in Tids : Resolve(db, c) = u /\ <<c, n>> \in sent

\* C4: every receipt is for an item the sink delivered to that subscriber, and a
\* send that raises writes no receipt (scheduler job and /getnews of
\* telegram_bot_v2, deliver_news_to_user of telegram_bot).
C4_ReceiptAfterSend ==
    /\ [](\A p \in BagToSet(db.delivery) : SentTo(p[1], p[2]))
    /\ [][(last'.op \in {"tick_send", "cmd_send"} /\ last'.ret = 0)
            => db'.delivery = db.delivery]_vars

\* a send raised while receipts of earlier sends exist
C4_Witness ==
    /\ last.op \in {"tick_send", "cmd_send"} /\ last.ret = 0
    /\ db.delivery # EmptyBag

\* C5: in check_and_deliver_news a send that raises does not end the batch: the
\* job goes on with the rest of the batch, and after the last item it sets the
\* subscriber's last_delivery.
C5_BatchContinues ==
    [][TickSendRaised =>
          IF Tail(tick.items) # <<>>
          THEN tick'.pc = "send" /\ tick'.cur = tick.cur
               /\ tick'.items = Tail(tick.items)
          ELSE LET u == Resolve(db, tick.cur)
               IN HasRow(db'.schedule, u) /\ db'.schedule[u].last = now]_vars

\* C6: in check_and_deliver_news a send that raises for one subscriber does not
\* keep the job from the batch of another enabled, due subscriber of the same run.
C6_OthersStillServed ==
    [][(TickSendRaised /\ TickScan(db, tick.rows, LocalNow).tick.pc = "send")
          => tick'.pc = "send"]_vars

\* C7: an item whose send raised in the scheduler job is sent again by a later
\* run and gets its receipt, when the sink does not fail forever and the
\* subscriber stays enabled and subscribed.
C7_RaisedThenReceipted ==
    \A c \in Tids, n \in 1..MaxNews :
        []((last.op = "tick_send" /\ last.ret = 0 /\ last.item = <<c, n>>)
             => <>HasReceipt(db, Resolve(db, c), n))

StoredLinks(d) == {d.news[i].link : i \in DOMAIN d.news}

\* C8: no two stored news items have the same link, and no operation changes or
\* removes a stored item (a fetch of a stored link inserts nothing).
C8_OneItemPerLink ==
    /\ [](\A i, j \in DOMAIN db.news : i # j => db.news[i].link # db.news[j].link)
    /\ [][\A i \in DOMAIN db.news :
             i \in DOMAIN db'.news /\ db'.news[i] = db.news[i]]_vars

\* a poll in which a fetched feed listed a link that was stored already
C8_Witness ==
    /\ last.op \in {"check_feeds", "v1_check_feeds"}
    /\ last.known /\ db.news # <<>>

\* C9: check_feeds returns the number of links that were not stored before the
\* call and are stored after it.
C9_CountIsGrowth ==
    [][last'.op = "check_feeds" =>
          last'.ret = Cardinality(StoredLinks(db')) - Cardinality(StoredLinks(db))]_vars

\* a poll in which one fetch failed, a fetched feed listed a stored link, and a
\* new link was stored and counted
C9_Witness ==
    /\ last.op = "check_feeds" /\ last.ret > 0
    /\ last.known /\ last.failed # {}

\* C10: in check_feeds the last_updated of a feed whose fetch failed is left as
\* it was.
C10_FailedFetchKeepsTimestamp ==
    [][last'.op = "check_feeds" =>
          \A i \in last'.failed :
             db'.feeds[i].last_updated = db.feeds[i].last_updated]_vars

\* C11: in telegram_bot_v2 an entry that a registered source lists from some time
\* on is eventually stored in news_items, with no /getnews and no further
\* /addfeed.
C11_PublishedThenStored ==
    []((FirstRow(db.feeds, "url", 1) # 0 /\ now > 0) => <>HasLink(db.news, 2))

C13_BatchIsMin ==
    [][/\ (tick.pc = "idle" /\ tick'.pc = "send") =>
             LET u == Resolve(db', tick'.cur)
             IN Len(tick'.items) = Min(LimitOf(db', u), Cardinality(Eligible(db', u)))
       /\ (cmd.pc = "idle" /\ cmd'.pc = "ack") =>
             LET u == Resolve(db', cmd'.user)
             IN Len(cmd'.items) = Min(LimitOf(db', u), Cardinality(Eligible(db', u)))]_vars

\* C14: when a run of the scheduler job (check_and_deliver_news,
\* check_scheduled_deliveries) takes a batch for a subscriber, the subscriber's
\* schedule is enabled and its last_delivery is null or at least interval
\* minutes before the time of the run.
C14_ProcessedOnlyWhenDue ==
    [][(tick.pc = "idle" /\ tick'.pc = "send") =>
          /\ HasRow(db.schedule, tick'.cur)
          /\ db.schedule[tick'.cur].enabled
          /\ \/ db.schedule[tick'.cur].last = NULL
             \/ now >= db.schedule[tick'.cur].last + db.schedule[tick'.cur].interval]_vars

\* The last_delivery of the schedule row of user u (NULL without a row)
LastDelivery(d, u) == IF HasRow(d.schedule, u) THEN d.schedule[u].last ELSE NULL

\* The step ends a delivery batch of the subscriber of users row u: the last item
\* of the scheduler job's or of get_news_command's batch has been sent.
BatchEnds(u) ==
    \/ /\ tick.pc = "send" /\ Tail(tick.items) = <<>>
       /\ last'.op = "tick_send" /\ last'.ret = 1
       /\ u = Resolve(db, tick.cur)
    \/ /\ cmd.pc = "send" /\ Tail(cmd.items) = <<>>
       /\ last'.op = "cmd_send" /\ last'.ret = 1
       /\ u = Resolve(db, cmd.user)

\* C15: a subscriber's last_delivery changes only in the step that ends a delivery
\* batch of that subscriber; enable_auto_delivery, disable_auto_delivery,
\* set_schedule and get_user_schedule leave it as it was.
C15_WrittenAfterBatchOnly ==
    [][\A u \in DOMAIN db'.schedule :
          LastDelivery(db', u) # LastDelivery(db, u) => BatchEnds(u)]_vars

\* C16: a last_delivery that is set stays set and never moves to an earlier time,
\* whatever operation is taken.
C16_LastDeliveryMonotonic ==
    [][\A u \in DOMAIN db.schedule :
          LastDelivery(db, u) # NULL =>
             /\ LastDelivery(db', u) # NULL
             /\ LastDelivery(db', u) >= LastDelivery(db, u)]_vars

\* set_schedule has changed the interval of a subscriber whose last_delivery was
\* written at a later time than the start, after deliveries
C16_Witness ==
    /\ last.op = "set_schedule" /\ last.ret = 1 /\ sent # {}
    /\ LastDelivery(db, Resolve(db, last.item[1])) > 0

\* C17: add_feed called with an address that is registered already returns the
\* feed_id of the registered feed and leaves the rss_feeds rows as they were,
\* whatever the fetcher gives at that call.
C17_RegistrationIdempotent ==
    [][(last'.op = "add_feed" /\ FirstRow(db.feeds, "url", last'.item[1]) # 0) =>
          /\ last'.ret = FirstRow(db.feeds, "url", last'.item[1])
          /\ db'.feeds = db.feeds]_vars

\* C18: get_user_schedule for a subscriber without a user_schedule row returns
\* enabled = false, interval = 60, last_delivery = null, and so does the next call.
C18_DefaultSchedule ==
    [][(last'.op = "get_user_schedule" /\ ~last'.known) =>
          LET default == [enabled |-> FALSE, interval |-> 60, last |-> NULL]
          IN /\ last'.item = <<default>>
             /\ get_user_schedule(db', last'.ret).ret = default]_vars

\* get_user_schedule was called for a subscriber that had no schedule row
C18_Witness == last.op = "get_user_schedule" /\ ~last.known

\* C19: set_schedule returns failure exactly for the intervals outside
\* {30, 60, 180, 1440}, and a call that returns failure leaves user_schedule as
\* it was: no row is changed and none is created.
C19_RejectedLeavesSchedule ==
    [][last'.op = "set_schedule" =>
          /\ last'.ret = 0 <=> last'.item[2] \notin {30, 60, 180, 1440}
          /\ last'.ret = 0 => db'.schedule = db.schedule]_vars

\* C20: mark_news_delivered called for a subscriber and item that have a receipt
\* reports success and leaves news_delivery as it was.
C20_SecondMarkIsNoOp ==
    [][(last'.op = "mark_news_delivered" /\ last'.known) =>
          /\ last'.ret = 1
          /\ db'.delivery = db.delivery]_vars

\* mark_news_delivered was called for a pair that had a receipt
C20_Witness ==
    /\ last.op = "mark_news_delivered" /\ last.known
    /\ HasReceipt(db, Resolve(db, last.item[1]), last.item[2])

\* The subscriber a message to chat c reaches: the key of their rows in
\* user_schedule and news_delivery
SubscriberOf(c) == IF app = "v1" THEN c ELSE Resolve(db, c)

\* C21: while a run of the scheduler job is in flight, a subscriber whose schedule
\* is disabled (and was when the run started) is sent nothing, gets no receipt and
\* keeps their last_delivery.
C21_DisabledUntouched ==
    [][tick.pc = "send" =>
          \A u \in DOMAIN db.schedule :
             ~db.schedule[u].enabled =>
                /\ \A p \in sent' \ sent : SubscriberOf(p[1]) # u
                /\ \A n \in DOMAIN db.news : HasReceipt(db', u, n) => HasReceipt(db, u, n)
                /\ db'.schedule[u].last = db.schedule[u].last]_vars

\* C22: a receipt, once written, is in every later state, whatever commands the
\* subscribers issue.
C22_ReceiptsStay ==
    [][\A p \in BagToSet(db.delivery) : BagIn(p, db'.delivery)]_vars

\* C23: in check_and_deliver_news the items of a subscriber's batch still to be
\* sent are in descending order of publication time; a step of the job writes no
\* receipt but the one of the item whose send it awaited; and the job goes on to
\* the next item of the batch only when that item was sent and its receipt
\* written.  So the receipts the job has written are, at every point, those of the
\* first items of the batch.
C23_ReceiptsInBatchOrder ==
    [][(app = "v2" /\ tick.pc = "send") =>
          LET u == Resolve(db, tick.cur)
              n == Head(tick.items)
          IN /\ \A i, j \in DOMAIN tick.items :
                   i < j => db.news[tick.items[i]].pub_date
                               >= db.news[tick.items[j]].pub_date
             /\ last'.op = "tick_send" =>
                   \A m \in DOMAIN db.news :
                      (HasReceipt(db', u, m) /\ ~HasReceipt(db, u, m)) => m = n
             /\ (tick'.pc = "send" /\ tick'.cur = tick.cur /\ tick' # tick) =>
                   /\ tick'.items = Tail(tick.items)
                   /\ <<tick.cur, n>> \in sent'
                   /\ HasReceipt(db', u, n)]_vars

\* the batch stopped at a send that raised, after a newer item of the batch was
\* receipted and with an older one still to send
C23_Witness ==
    /\ app = "v2" /\ last.op = "tick_send" /\ last.ret = 0
    /\ LET u == Resolve(db, last.item[1])
           n == last.item[2]
       IN /\ ~HasReceipt(db, u, n)
          /\ \E m \in DOMAIN db.news : Newer(db, m, n) /\ HasReceipt(db, u, m)
          /\ \E o \in Eligible(db, u) : Newer(db, n, o)

ReadOps ==
    {"get_undelivered_news", "get_user_schedule", "get_user_feeds",
     "get_user_preferences", "get_user_language"}

\* C24: a read operation of NewsManager called for a subscriber the store does
\* not know leaves users, user_schedule and user_preferences as they were.
C24_ReadsCreateNothing ==
    [][(last'.op \in ReadOps /\ ~KnownUser(db, last'.ret)) =>
          /\ db'.users = db.users
          /\ db'.schedule = db.schedule
          /\ db'.prefs = db.prefs]_vars

\* A step of check_and_deliver_news that ends in its except clause: the send
\* raised, or the voice step after the send did
TickFailed ==
    /\ app = "v2" /\ tick.pc = "send" /\ last'.op = "tick_send"
    /\ (last'.ret = 0 \/ VoiceStepRaises(tick.voice))

\* The enabled rows whose subscriber is due at t and has news to deliver
DueWithNews(d, t) ==
    LET rows == EnabledRows(d, 1)
    IN {i \in DOMAIN rows :
           Due(rows[i], t) /\ get_undelivered_news(d, rows[i].user_id).ret # <<>>}

\* C25: a failure inside a run of check_and_deliver_news ends that run only: the
\* job is idle afterwards and can run again, the failure itself writes nothing,
\* and a run from the state it leaves goes to the first enabled, due subscriber
\* with news, the same as a run that starts from that store without the failure.
C25_FailureContained ==
    [][TickFailed =>
          /\ tick' = IdleTick
          /\ db' = db
          /\ LET rows == EnabledRows(db', 1)
                 r == TickScan(db', rows, LocalNow)
                 S == DueWithNews(db', LocalNow)
             IN S # {} =>
                   /\ r.tick.pc = "send"
                   /\ r.tick.cur = rows[CHOOSE i \in S : \A j \in S : i <= j].user_id]_vars

\* a send raised, and the job may run again for a subscriber who is still due
C25_Witness ==
    /\ app = "v2" /\ last.op = "tick_send" /\ last.ret = 0
    /\ tick = IdleTick
    /\ DueWithNews(db, LocalNow) # {}
    /\ TickScan(db, EnabledRows(db, 1), LocalNow).tick.cur = last.item[1]

\* C26: in check_and_deliver_news and in get_news_command, an item whose send
\* returned is receipted, and after the last item of the batch the subscriber's
\* last_delivery is set, whether the voice and translation steps are disabled,
\* succeed or fail.
C26_TransformerKeepsReceipts ==
    [][/\ TickSendReturned =>
             LET u == Resolve(db, tick.cur)
             IN /\ HasReceipt(db', u, Head(tick.items))
                /\ Tail(tick.items) = <<>> => LastDelivery(db', u) = now
       /\ (cmd.pc = "send" /\ last'.op = "cmd_send" /\ last'.ret = 1) =>
             LET u == Resolve(db, cmd.user)
             IN /\ HasReceipt(db', u, Head(cmd.items))
                /\ Tail(cmd.items) = <<>> => LastDelivery(db', u) = now]_vars

\* C27: add_user called for a subscriber the store does not know adds one users
\* row and one user_schedule row for it, disabled, of interval 60 and without
\* last_delivery; called for a subscriber the store knows it leaves users and
\* user_schedule as they were.
C27_RegistrationCreatesOneSchedule ==
    [][last'.op = "add_user" =>
          IF last'.known
          THEN db'.users = db.users /\ db'.schedule = db.schedule
          ELSE /\ Len(db'.users) = Len(db.users) + 1
               /\ last'.ret = Len(db'.users)
               /\ db'.schedule =
                     PutRow(db.schedule, last'.ret,
                            [enabled |-> FALSE, interval |-> DefaultInterval,
                             last |-> NULL])]_vars

\* C28: subscribe_user_to_feed for a pair that has a row succeeds and leaves
\* user_feeds as it was; user_feeds never holds two rows of one (subscriber,
\* feed) pair; and after unsubscribe_user_from_feed the pair has no row.
C28_SubscriptionIdempotent ==
    /\ [](\A p \in BagToSet(db.user_feeds) : CopiesIn(p, db.user_feeds) = 1)
    /\ [][(last'.op = "subscribe_user_to_feed" /\ last'.known) =>
             last'.ret = 1 /\ db'.user_feeds = db.user_feeds]_vars
    /\ [][last'.op = "unsubscribe_user_from_feed" =>
             ~Subscribed(db', Resolve(db, last'.item[1]), last'.item[2])]_vars

\* subscribe_user_to_feed was called for a pair that had a row, while the
\* subscriber follows the other feed too
C28_Witness ==
    /\ last.op = "subscribe_user_to_feed" /\ last.known
    /\ \A f \in Urls : Subscribed(db, Resolve(db, last.item[1]), f)

\* C29: every stored news item stays in news_items with its feed, link, body and
\* pub_date unchanged, and news_items changes only in a step that runs
\* _fetch_feed_items (add_feed in /addfeed, check_feeds in /getnews).
C29_ItemsImmutable ==
    [][/\ \A n \in DOMAIN db.news :
             n \in DOMAIN db'.news /\ db'.news[n] = db.news[n]
       /\ db'.news # db.news => Ingests]_vars

\* both items are stored, one is delivered, and the subscriber has left the feed
C29_Witness ==
    /\ Len(db.news) = 2
    /\ db.delivery # EmptyBag
    /\ db.user_feeds = EmptyBag

\* The enabled rows whose subscriber is due at t and has, in the rows of their own
\* user_id, a followed feed with an item without a receipt
OwnDue(d, t) ==
    LET rows == EnabledRows(d, 1)
    IN {i \in DOMAIN rows : Due(rows[i], t) /\ Eligible(d, rows[i].user_id) # {}}

\* C30: a run of check_and_deliver_news adds no users row; when an enabled, due
\* subscriber has undelivered items of a followed feed, the run starts a batch of
\* items eligible in the rows of the subscriber it is for; and a send that
\* returns goes to that subscriber's chat and is receipted in that subscriber's
\* rows.
C30_OwnRows ==
    [][/\ (TickStart \/ (app = "v2" /\ last'.op = "tick_send")) =>
             db'.users = db.users
       /\ (TickStart /\ OwnDue(db, LocalNow) # {}) =>
             /\ tick'.pc = "send"
             /\ Range(tick'.items) \subseteq Eligible(db, tick'.cur)
       /\ TickSendReturned =>
             /\ <<db.users[tick.cur].email, Head(tick.items)>> \in sent'
             /\ HasReceipt(db', tick.cur, Head(tick.items))]_vars

\* C31: when a due subscriber has no eligible items, a run of the scheduled job
\* begins no batch for them and leaves their last_delivery as it was, so they
\* are due again at the next run.  (A batch begins when the job's first send for
\* a subscriber is pending; a schedule row is due as the job's query reads it.)
C31_EmptyBatchSkipped ==
    [][LET BatchStarts ==
               tick'.pc = "send" /\ (tick.pc = "idle" \/ tick'.cur # tick.cur)
           Row(d, u) == [user_id |-> u, interval |-> d.schedule[u].interval,
                         last |-> d.schedule[u].last]
       IN /\ BatchStarts => Eligible(db', tick'.cur) # {}
          /\ (TickStart \/ V1TickStart) =>
                \A u \in DOMAIN db.schedule :
                   (db.schedule[u].enabled /\ Due(Row(db, u), LocalNow)
                    /\ Eligible(db, u) = {}) =>
                       /\ db'.schedule[u] = db.schedule[u]
                       /\ Due(Row(db', u), LocalNow)]_vars

\* C32: when get_news_command has sent the last item of a batch at time t the
\* subscriber's last_delivery is t, and a run of the scheduler job that follows
\* directly (so before t + interval) begins no batch for them; a /getnews that
\* finds no eligible item leaves every last_delivery as it was.
C32_PullPostpones ==
    [][/\ (cmd.pc = "send" /\ last'.op = "cmd_send" /\ last'.ret = 1
           /\ cmd'.pc = "idle") =>
             LastDelivery(db', Resolve(db, cmd.user)) = now
       /\ (GetNewsStart(1, [u \in Urls |-> FetchBozo]) /\ cmd'.pc = "idle") =>
             \A u \in DOMAIN db.schedule : LastDelivery(db', u) = LastDelivery(db, u)
       /\ (last.op = "cmd_send" /\ last.ret = 1 /\ cmd.pc = "idle"
           /\ LastDelivery(db, 1) = now /\ TickStart) =>
             tick'.pc = "idle"]_vars

C34_OwnFieldOnly ==
    [][\A t \in Tids :
          LET u == Resolve(db, t)
              before == get_user_schedule(db, t).ret
              Sets == \E m \in Intervals : ScheduleSet(t, m)
          IN /\ (Sets \/ ScheduleEnable(t) \/ ScheduleDisable(t)) =>
                   /\ \A v \in DOMAIN db.schedule \ {u} :
                         db'.schedule[v] = db.schedule[v]
                   /\ db'.user_feeds = db.user_feeds
                   /\ db'.delivery = db.delivery
             /\ (Sets /\ last'.ret = 1) =>
                   /\ db'.schedule[u].enabled = before.enabled
                   /\ db'.schedule[u].last = before.last
             /\ ScheduleDisable(t) =>
                   /\ db'.schedule[u].interval = before.interval
                   /\ db'.schedule[u].last = before.last]_vars

\* set_schedule was accepted for a subscriber with subscriptions and receipts,
\* whose delivery is enabled, beside the schedule row of another subscriber
C34_Witness ==
    /\ last.op = "set_schedule" /\ last.ret = 1
    /\ LET u == Resolve(db, last.item[1])
       IN /\ db.schedule[u].enabled /\ db.schedule[u].last # NULL
          /\ db.schedule[u].interval = last.item[2]
          /\ \E n \in DOMAIN db.news : HasReceipt(db, u, n)
          /\ DOMAIN db.schedule # {u}

\* C35: receipts survive subscription changes.  Whatever a subscriber's history
\* of subscribing, unsubscribing and subscribing again, no step removes a receipt,
\* get_undelivered_news returns no item they have a receipt for and no item of a
\* feed they do not follow, and it returns every item of a followed feed without
\* a receipt (up to max_news_items).
C35_ReceiptsSurviveResubscription ==
    /\ [](\A t \in Tids :
             KnownUser(db, t) =>
                LET u == Resolve(db, t)
                    ret == get_undelivered_news(db, t).ret
                IN /\ \A n \in Range(ret) :
                         ~HasReceipt(db, u, n) /\ Subscribed(db, u, db.news[n].feed)
                   /\ Len(ret) < LimitOf(db, u) =>
                         \A n \in DOMAIN db.news :
                            (Subscribed(db, u, db.news[n].feed) /\ ~HasReceipt(db, u, n))
                               => n \in Range(ret))
    /\ [][\A p \in DOMAIN db.delivery :
             p \in DOMAIN db'.delivery /\ db'.delivery[p] = db.delivery[p]]_vars

\* a subscriber with a receipt for an item of feed 1, who was not following the
\* feed, has subscribed to it again: the item without a receipt is returned and
\* the item with the receipt is not
C35_Witness ==
    /\ last.op = "subscribe_user_to_feed" /\ ~last.known /\ last.item[2] = 1
    /\ LET u == Resolve(db, last.item[1])
           ret == get_undelivered_news(db, last.item[1]).ret
       IN \E i, n \in DOMAIN db.news :
             /\ db.news[i].feed = 1 /\ HasReceipt(db, u, i) /\ i \notin Range(ret)
             /\ db.news[n].feed = 1 /\ ~HasReceipt(db, u, n) /\ n \in Range(ret)

\* C36: entries without a link are stored under the empty link, and the lookup by
\* link finds the first of them: at most one item with the empty link is ever
\* stored, over all feeds and polls.  When _fetch_feed_items reads entries without
\* a link and none is stored, the first of them is inserted and counted and the
\* later ones are skipped; when one is stored, all of them are skipped.
C36_OneLinklessItem ==
    /\ [](Cardinality({i \in DOMAIN db.news : db.news[i].link = EmptyLink}) <= 1)
    /\ [][last'.op = "fetch_feed_items" =>
             LET fid == last'.item[1]
                 res == last'.item[2]
                 L == {j \in DOMAIN res.entries : res.entries[j].link = NULL}
                 first == CHOOSE j \in L : \A k \in L : j <= k
                 had == \E i \in DOMAIN db.news : db.news[i].link = EmptyLink
                 new == {i \in DOMAIN db'.news \ DOMAIN db.news :
                            db'.news[i].link = EmptyLink}
             IN /\ last'.ret = Len(db'.news) - Len(db.news)
                /\ (res.out = "ok" /\ ~had /\ L # {}) =>
                      \E i \in new :
                         /\ new = {i}
                         /\ db'.news[i].feed = fid
                         /\ db'.news[i].pub_date = res.entries[first].date
                /\ (res.out # "ok" \/ had \/ L = {}) => new = {}]_vars

\* _fetch_feed_items read two distinct entries without a link from a source and
\* counted one; the first of them is stored
C36_Witness ==
    /\ last.op = "fetch_feed_items" /\ last.ret = 1
    /\ last.item[2].out = "ok"
    /\ last.item[2].entries = <<[link |-> NULL, date |-> 20], [link |-> NULL, date |-> 10]>>
    /\ \E i \in DOMAIN db.news : db.news[i].link = EmptyLink /\ db.news[i].pub_date = 20

\* C37: add_feed for an address whose fetch returns without entries gives 0 and
\* leaves rss_feeds and news_items as they were, for an address that is not
\* registered and for one that is (whose feed_id is not returned).
C37_EmptySourceRejected ==
    [][(last'.op = "add_feed" /\ last'.item[2].out # "raise"
        /\ last'.item[2].entries = <<>>) =>
          /\ last'.ret = 0
          /\ db'.feeds = db.feeds
          /\ db'.news = db.news]_vars

\* add_feed was called for a registered address, with stored items, whose fetch
\* returned without entries
C37_Witness ==
    /\ last.op = "add_feed" /\ last.item[2] = FetchBozo
    /\ FirstRow(db.feeds, "url", last.item[1]) # 0
    /\ db.news # <<>>

\* C39: a poll of one feed is all or nothing.  A _fetch_feed_items that raises,
\* also after it inserted entries, returns 0 and leaves news_items and the feed's
\* last_updated as they were.  In check_feeds every item stored before the call
\* stays, a feed whose fetch failed gets no item, and the items the other feeds
\* added in the same call are stored and counted.
C39_PollAllOrNothing ==
    [][/\ (last'.op = "fetch_feed_items" /\ last'.item[2].out = "raise") =>
             /\ last'.ret = 0
             /\ db'.news = db.news
             /\ db'.feeds = db.feeds
       /\ last'.op = "check_feeds" =>
             /\ \A n \in DOMAIN db.news : n \in DOMAIN db'.news /\ db'.news[n] = db.news[n]
             /\ \A n \in DOMAIN db'.news \ DOMAIN db.news : db'.news[n].feed \notin last'.failed
             /\ last'.ret = Len(db'.news) - Len(db.news)]_vars

\* _fetch_feed_items raised while it read the second entry of a feed, after it
\* inserted the first, whose link is not stored; an item of an earlier poll is
\* stored
C39_Witness ==
    /\ last.op = "fetch_feed_items" /\ last.item[2].out = "raise"
    /\ last.item[2].k = 2
    /\ ~HasLink(db.news, LinkOf(last.item[2].entries[1]))
    /\ db.news # <<>>

\* C38: the backlog drains.  Every send of the scheduler job that the sink accepts
\* takes one item off the subscriber's backlog of undelivered items and is the
\* first send of that item to them, and a run of the job at which an enabled
\* subscriber is due and has a backlog begins a batch: so a backlog of N items is
\* gone after the batches of ceil(N/c) such runs, and no item is left out for ever.
C38_BacklogDrains ==
    [][/\ TickSendReturned =>
             LET u == Resolve(db, tick.cur)
             IN /\ <<tick.cur, Head(tick.items)>> \notin sent
                /\ Head(tick.items) \in Eligible(db, u)
                /\ Eligible(db', u) = Eligible(db, u) \ {Head(tick.items)}
       /\ (TickStart /\ DueWithNews(db, LocalNow) # {}) => tick'.pc = "send"]_vars

====
